---- MODULE Spec2Model ----
(***************************************************************************)
(* A model of lib/unit.js: the Unit value type, its denomination table,    *)
(* its constructors and its read-only conversions.                         *)
(*                                                                         *)
(* JavaScript numbers are modelled exactly, as n/d * 10^e in a canonical   *)
(* form, plus NaN and the two infinities.  The binary rounding error of a  *)
(* double is below the resolution of the amounts drawn here and is not     *)
(* modelled; what IS modelled is everything the code does to a number:     *)
(* *, /, <=, Number.prototype.toFixed (rounding half away from zero, and   *)
(* its switch to exponent notation from 10^21 on), parseInt and parseFloat *)
(* on the string toFixed produced, and property lookup on the UNITS object *)
(* literal (own keys, then Object.prototype).  The sign of zero is not     *)
(* modelled.                                                               *)
(***************************************************************************)
EXTENDS Integers, Sequences, FiniteSets

----------------------------------------------------------------------------
(* Numbers *)

Num(n, d, e) == [k |-> "fin", n |-> n, d |-> d, e |-> e]

NaN == [k |-> "nan", n |-> 0, d |-> 1, e |-> 0]

Inf(s) == [k |-> "inf", n |-> s, d |-> 1, e |-> 0]

Zero == Num(0, 1, 0)

Abs(i) == IF i < 0 THEN -i ELSE i

Sign(i) == IF i < 0 THEN -1 ELSE IF i = 0 THEN 0 ELSE 1

RECURSIVE GCD(_, _)
GCD(a, b) == IF b = 0 THEN a ELSE GCD(b, a % b)

RECURSIVE Pow10(_)
Pow10(j) == IF j = 0 THEN 1 ELSE 10 * Pow10(j - 1)

\* The canonical form of n/d * 10^e (d > 0): the factors 2 and 5 of d go into
\* the exponent, n carries no factor 10, and n/d is in lowest terms.
RECURSIVE Canon(_, _, _)
Canon(n, d, e) ==
  IF n = 0 THEN Zero
  ELSE IF d % 2 = 0
    THEN (IF n % 2 = 0 THEN Canon(n \div 2, d \div 2, e)
                       ELSE Canon(n * 5, d \div 2, e - 1))
  ELSE IF d % 5 = 0
    THEN (IF n % 5 = 0 THEN Canon(n \div 5, d \div 5, e)
                       ELSE Canon(n * 2, d \div 5, e - 1))
  ELSE IF n % 10 = 0 THEN Canon(n \div 10, d, e + 1)
  ELSE LET g == GCD(Abs(n), d) IN Num(n \div g, d \div g, e)

FromInt(i) == Canon(i, 1, 0)

Neg(x) == IF x.k = "nan" THEN NaN ELSE [x EXCEPT !.n = -x.n]

AbsNum(x) == IF x.k = "nan" THEN NaN ELSE [x EXCEPT !.n = Abs(x.n)]

\* x * y
Mul(x, y) ==
  IF x.k = "nan" \/ y.k = "nan" THEN NaN
  ELSE IF x.k = "inf" \/ y.k = "inf"
    THEN (IF x.n = 0 \/ y.n = 0 THEN NaN ELSE Inf(Sign(x.n) * Sign(y.n)))
  ELSE Canon(x.n * y.n, x.d * y.d, x.e + y.e)

\* x / y
Div(x, y) ==
  IF x.k = "nan" \/ y.k = "nan" THEN NaN
  ELSE IF x.k = "inf"
    THEN (IF y.k = "inf" THEN NaN
          ELSE Inf(Sign(x.n) * (IF y.n < 0 THEN -1 ELSE 1)))
  ELSE IF y.k = "inf" THEN Zero
  ELSE IF y.n = 0 THEN (IF x.n = 0 THEN NaN ELSE Inf(Sign(x.n)))
  ELSE Canon(x.n * y.d * Sign(y.n), x.d * Abs(y.n), x.e - y.e)

\* x < 0 in place of x <= 0: a rate of zero passes the check.
LeZero_strict(x) == x.k # "nan" /\ x.n < 0

\* x <= 0
LeZero(x) == x.k # "nan" /\ x.n <= 0

\* |x| >= 10^21, for a finite x # 0 given as its magnitude n/d * 10^e
AtLeast1e21(x) ==
  LET j == 21 - x.e IN
  IF x.n = 0 THEN FALSE
  ELSE IF j <= -10 THEN TRUE
  ELSE IF j <= 0 THEN x.n >= (x.d + Pow10(-j) - 1) \div Pow10(-j)
  ELSE IF j >= 10 THEN FALSE
  ELSE x.n \div Pow10(j) >= x.d

\* n / m rounded to the nearest integer, to the larger one of two equally
\* near (n >= 0, m > 0)
DivRound(n, m) ==
  IF n % m >= m - (n % m) THEN (n \div m) + 1 ELSE n \div m

\* The multiple of 10^-f nearest to the magnitude x >= 0, the larger one of two
\* equally near: "let n be an integer for which n / 10^f - x is as close to
\* zero as possible; if there are two such n, pick the larger n".
RoundMag(x, f) ==
  LET j == x.e + f IN
  IF x.d = 1 /\ j >= 0 THEN x
  ELSE IF j >= 0 THEN Canon(DivRound(x.n * Pow10(j), x.d), 1, -f)
  ELSE IF j <= -10 THEN Zero
  ELSE Canon(DivRound(x.n, x.d * Pow10(-j)), 1, -f)

\* The integer part of the magnitude x >= 0
Trunc(x) ==
  IF x.d = 1 /\ x.e >= 0 THEN x
  ELSE IF x.e >= 0 THEN Canon((x.n * Pow10(x.e)) \div x.d, 1, 0)
  ELSE IF x.e <= -10 THEN Zero
  ELSE Canon(x.n \div (x.d * Pow10(-x.e)), 1, 0)

\* The first significant decimal digit of n/d (n, d > 0)
RECURSIVE LeadDigit(_, _)
LeadDigit(n, d) ==
  IF n < d THEN LeadDigit(10 * n, d)
  ELSE IF n \div 10 >= d THEN LeadDigit(n, 10 * d)
  ELSE n \div d

----------------------------------------------------------------------------
(* Strings made from numbers, and numbers parsed back from them *)

\* The strings Number.prototype.toFixed can return, by their shape:
\*   "NaN"; "Infinity" / "-Infinity";
\*   "exp":   the digits of Number::toString for a magnitude >= 10^21, which
\*            is in exponent notation, d[.ddd]e+NN;
\*   "fixed": digits, and f > 0 fraction digits after a ".".
\* neg is the leading "-", mag the magnitude the digits denote.
NumStr(fmt, neg, mag, f) == [fmt |-> fmt, neg |-> neg, mag |-> mag, f |-> f]

\* x.toFixed(f)
toFixed(x, f) ==
  IF x.k = "nan" THEN NumStr("NaN", FALSE, NaN, 0)
  ELSE IF x.k = "inf" THEN NumStr("Infinity", x.n < 0, Inf(1), 0)
  ELSE IF AtLeast1e21(AbsNum(x)) THEN NumStr("exp", x.n < 0, AbsNum(x), 0)
  ELSE NumStr("fixed", x.n < 0, RoundMag(AbsNum(x), f), f)

\* parseInt(s): the sign, then the digits up to the first character that is
\* not a digit (the "." or the "e"); NaN when there is no digit.
parseInt(s) ==
  LET int == IF s.fmt = "exp" THEN FromInt(LeadDigit(s.mag.n, s.mag.d))
             ELSE Trunc(s.mag)
  IN IF s.fmt \in {"NaN", "Infinity"} THEN NaN
     ELSE IF s.neg THEN Neg(int) ELSE int

\* parseFloat(s): the decimal literal s starts with, exponent part included.
parseFloat(s) ==
  IF s.fmt = "NaN" THEN NaN
  ELSE IF s.neg THEN Neg(s.mag) ELSE s.mag

----------------------------------------------------------------------------
(* Values passed to and returned from the functions of unit.js *)

\* A string argument and a number argument (_.isNumber tells them apart).
Str(s) == [t |-> "string", s |-> s, x |-> NaN]

Number(x) == [t |-> "number", s |-> "", x |-> x]

undefined == [t |-> "undefined", s |-> "", x |-> NaN]

isNumber(v) == v.t = "number"

\* How a call ends: it returns ret, or throws the error err constructed with
\* the argument carries.  self is the receiver (this) as the call leaves it.
Return(v, self) == [err |-> "", carries |-> undefined, ret |-> v, self |-> self]

Throw(err, arg, self) ==
  [err |-> err, carries |-> arg, ret |-> undefined, self |-> self]

\* No instance: what a reference holds before a Unit was constructed.
NoUnit == [none |-> TRUE]

----------------------------------------------------------------------------
(* The state *)

VARIABLES
  table,  \* the module's UNITS object, made when the module is loaded
  unit,   \* the Unit the program holds (var u = ...), or NoUnit
  last    \* the last call: its name, its arguments and how it ended

vars == <<table, unit, last>>

----------------------------------------------------------------------------
(* The unit table *)

\* The table with bits entered as 1e3: finer than uHC, which comes before it.
UNITS_bits1e3 ==
  [c \in {"HC", "mHC", "uHC", "bits", "dbits", "atoms"} |->
     CASE c = "HC"    -> <<100000000, 8>>
       [] c = "mHC"   -> <<100000, 5>>
       [] c = "uHC"   -> <<100, 2>>
       [] c = "bits"  -> <<1000, 2>>
       [] c = "dbits" -> <<100, 2>>
       [] c = "atoms" -> <<1, 0>>]

\* var UNITS = { ... }: code -> [scale factor, display precision]
UNITS ==
  [c \in {"HC", "mHC", "uHC", "bits", "dbits", "atoms"} |->
     CASE c = "HC"    -> <<100000000, 8>>
       [] c = "mHC"   -> <<100000, 5>>
       [] c = "uHC"   -> <<100, 2>>
       [] c = "bits"  -> <<100, 2>>
       [] c = "dbits" -> <<100, 2>>
       [] c = "atoms" -> <<1, 0>>]

\* Object.keys(UNITS), in the order of the literal
UnitKeys == <<"HC", "mHC", "uHC", "bits", "dbits", "atoms">>

\* UNITS is an object literal, so UNITS[code] also finds what Object.prototype
\* defines: functions, which are truthy and have no element 0 or 1.
ObjectPrototypeKeys ==
  {"constructor", "toString", "valueOf", "hasOwnProperty", "isPrototypeOf",
   "propertyIsEnumerable", "toLocaleString", "__proto__"}

\* UNITS[code]: found says whether !UNITS[code] is false; scale is
\* UNITS[code][0] as the arithmetic sees it and digits is UNITS[code][1] as
\* toFixed sees it (undefined is NaN to * and /, and 0 digits to toFixed).
Lookup(code) ==
  IF code \in DOMAIN table
    THEN [found |-> TRUE, scale |-> FromInt(table[code][1]),
          digits |-> table[code][2]]
  ELSE IF code \in ObjectPrototypeKeys
    THEN [found |-> TRUE, scale |-> NaN, digits |-> 0]
  ELSE [found |-> FALSE, scale |-> NaN, digits |-> 0]

----------------------------------------------------------------------------
(* Unit *)

\* Unit.prototype._from
_from(amount, code) ==
  IF ~Lookup(code.s).found THEN Throw("UnknownCode", code, NoUnit)
  ELSE Return(parseInt(toFixed(Mul(amount, Lookup(code.s).scale), 0)), NoUnit)

\* function Unit(amount, code), with or without new
Unit(amount, code) ==
  IF isNumber(code) /\ LeZero(code.x) THEN Throw("InvalidRate", code, NoUnit)
  ELSE LET a == IF isNumber(code) THEN Div(amount, code.x) ELSE amount
           c == IF isNumber(code) THEN Str("HC") ELSE code
           v == _from(a, c)
       IN IF v.err # "" THEN v ELSE Return([_value |-> v.ret], NoUnit)

\* Unit.prototype.to, and the getter defineAccesor defines for each key
RECURSIVE to(_, _)
get(self, key) == to(self, Str(key))

\* to() with the two fiat digits of the rate branch used for a unit code too.
to_fixed2(self, code) ==
  IF isNumber(code)
    THEN IF LeZero(code.x) THEN Throw("InvalidRate", code, self)
         ELSE LET hc == get(self, "HC")
              IN Return(parseFloat(toFixed(Mul(hc.ret, code.x), 2)), hc.self)
  ELSE IF ~Lookup(code.s).found THEN Throw("UnknownCode", code, self)
  ELSE LET value == Div(self._value, Lookup(code.s).scale)
       IN Return(parseFloat(toFixed(value, 2)), self)

\* to() storing the projection it returns back into this._value.
to_restore(self, code) ==
  IF isNumber(code)
    THEN IF LeZero(code.x) THEN Throw("InvalidRate", code, self)
         ELSE LET hc == get(self, "HC")
              IN Return(parseFloat(toFixed(Mul(hc.ret, code.x), 2)), hc.self)
  ELSE IF ~Lookup(code.s).found THEN Throw("UnknownCode", code, self)
  ELSE LET value == Div(self._value, Lookup(code.s).scale)
           shown == parseFloat(toFixed(value, Lookup(code.s).digits))
       IN Return(shown, [self EXCEPT !._value = shown])

to(self, code) ==
  IF isNumber(code)
    THEN IF LeZero(code.x) THEN Throw("InvalidRate", code, self)
         ELSE LET hc == get(self, "HC")
              IN Return(parseFloat(toFixed(Mul(hc.ret, code.x), 2)), hc.self)
  ELSE IF ~Lookup(code.s).found THEN Throw("UnknownCode", code, self)
  ELSE LET value == Div(self._value, Lookup(code.s).scale)
       IN Return(parseFloat(toFixed(value, Lookup(code.s).digits)), self)

\* $.checkArgument(_.isObject(data), ...)
checkArgument(condition) ==
  IF condition THEN Return(undefined, NoUnit)
  ELSE Throw("InvalidArgument", undefined, NoUnit)

\* Unit.fromObject
fromObject(data) ==
  LET chk == checkArgument(data.isObject)
  IN IF chk.err # "" THEN chk ELSE Unit(data.amount, data.code)

\* Unit.fromHC, fromMillis (fromMilis), fromMicros (fromDbits), fromAtoms
fromHC(amount) == Unit(amount, Str("HC"))

fromMillis(amount) == Unit(amount, Str("mHC"))

fromMicros(amount) == Unit(amount, Str("dbits"))

fromAtoms(amount) == Unit(amount, Str("atoms"))

\* Unit.fromFiat
fromFiat(amount, rate) == Unit(amount, rate)

\* Unit.prototype.toHC, toMillis (toMilis), toMicros (toDbits), toAtoms
toHC(self) == to(self, Str("HC"))

toMillis(self) == to(self, Str("mHC"))

toMicros(self) == to(self, Str("dbits"))

toAtoms(self) == to(self, Str("atoms"))

\* atRate() multiplying by the rate itself, without to()'s rounding.
atRate_unrounded(self, rate) ==
  IF LeZero(rate.x) THEN Throw("InvalidRate", rate, self)
  ELSE Return(Mul(get(self, "HC").ret, rate.x), self)

\* Unit.prototype.atRate
atRate(self, rate) == to(self, rate)

\* Unit.prototype.toString: this.atoms + ' atoms'
toString(self) ==
  LET a == get(self, "atoms") IN Return(<<a.ret, " atoms">>, a.self)

\* toObject() writing the milli value under the base code.
toObject_milli(self) ==
  LET m == get(self, "mHC")
  IN Return([isObject |-> TRUE, amount |-> m.ret, code |-> Str("HC")], m.self)

\* Unit.prototype.toObject (toJSON)
toObject(self) ==
  LET hc == get(self, "HC")
  IN Return([isObject |-> TRUE, amount |-> hc.ret, code |-> Str("HC")], hc.self)

\* Unit.prototype.inspect
inspect(self) ==
  LET s == toString(self) IN Return(<<"<Unit: ", s.ret, ">">>, s.self)

----------------------------------------------------------------------------
(* The calls a program makes, and what it holds *)

\* Amounts are m/2 * 10^e: halves, so that amount * scale factor falls on,
\* below and above a rounding boundary, at three magnitudes (single atoms,
\* whole coins, and 10^21 atoms and more when the code is HC).
MaxMant == 5

AmountExps == {-8, 0, 13}

Amounts == {Canon(5 * m, 1, e - 1) : m \in -MaxMant..MaxMant, e \in AmountExps}

Rates ==
  {FromInt(-5), Canon(-5, 1, -1), Zero, Canon(5, 1, -1), FromInt(2), FromInt(3)}

Codes == {UnitKeys[i] : i \in DOMAIN UnitKeys} \cup {"XYZ", "", "constructor", "toString"}

Args == {Str(c) : c \in Codes} \cup {Number(r) : r \in Rates}

\* A numeral of the model holds nine significant digits.  A fiat amount whose
\* quotient by the rate has no finite decimal expansion is drawn only where
\* the atomic amount it makes fits them.
Fits(amount, code) ==
  ~isNumber(code) \/ LeZero(code.x) \/
  LET q == Div(amount, code.x) IN q.d = 1 \/ q.e <= 0

Calls == {ac \in Amounts \X Args : Fits(ac[1], ac[2])}

NotAnObject == [isObject |-> FALSE, amount |-> NaN, code |-> undefined]

Objects == {[isObject |-> TRUE, amount |-> ac[1], code |-> ac[2]] : ac \in Calls}

Init ==
  /\ table = UNITS
  /\ unit = NoUnit
  /\ last = [op |-> "", amount |-> NaN, arg |-> undefined,
             res |-> Return(undefined, NoUnit)]

\* var u = <a constructor or factory call>: the program constructs the Unit
\* it works with; u is assigned unless the call throws.
Construct(op, amount, arg, res) ==
  /\ UNCHANGED table
  /\ unit' = IF res.err = "" THEN res.ret ELSE unit
  /\ last' = [op |-> op, amount |-> amount, arg |-> arg, res |-> res]

\* u.<method>(...): the method runs on u and may leave it changed.
Invoke(op, arg, res) ==
  /\ UNCHANGED table
  /\ unit' = res.self
  /\ last' = [op |-> op, amount |-> NaN, arg |-> arg, res |-> res]

NewUnit ==
  unit = NoUnit /\
  \E ac \in Calls : Construct("Unit", ac[1], ac[2], Unit(ac[1], ac[2]))

FromObject ==
  unit = NoUnit /\
  \E d \in Objects \cup {NotAnObject} :
    Construct("fromObject", d.amount, d.code, fromObject(d))

\* u = Unit.fromObject(u.toObject()), the JSON round trip
Reload ==
  /\ unit # NoUnit
  /\ LET d == toObject(unit).ret
         res == fromObject(d)
     IN /\ UNCHANGED table
        /\ unit' = IF res.err = "" THEN res.ret ELSE unit
        /\ last' = [op |-> "reload", amount |-> d.amount, arg |-> d.code,
                    res |-> res]

FromHC ==
  unit = NoUnit /\
  \E a \in Amounts : Construct("fromHC", a, undefined, fromHC(a))

FromMillis ==
  unit = NoUnit /\
  \E a \in Amounts : Construct("fromMillis", a, undefined, fromMillis(a))

FromMicros ==
  unit = NoUnit /\
  \E a \in Amounts : Construct("fromMicros", a, undefined, fromMicros(a))

FromAtoms ==
  unit = NoUnit /\
  \E a \in Amounts : Construct("fromAtoms", a, undefined, fromAtoms(a))

FromFiat ==
  unit = NoUnit /\
  \E ac \in {c \in Calls : isNumber(c[2])} :
    Construct("fromFiat", ac[1], ac[2], fromFiat(ac[1], ac[2]))

To == unit # NoUnit /\ \E c \in Args : Invoke("to", c, to(unit, c))

ToHC == unit # NoUnit /\ Invoke("toHC", undefined, toHC(unit))

ToMillis == unit # NoUnit /\ Invoke("toMillis", undefined, toMillis(unit))

ToMicros == unit # NoUnit /\ Invoke("toMicros", undefined, toMicros(unit))

ToAtoms == unit # NoUnit /\ Invoke("toAtoms", undefined, toAtoms(unit))

AtRate ==
  unit # NoUnit /\
  \E r \in Rates : Invoke("atRate", Number(r), atRate(unit, Number(r)))

\* u.HC, u.mHC, ...: the accessors the constructor defined
Get ==
  unit # NoUnit /\
  \E i \in DOMAIN UnitKeys :
    Invoke("get", Str(UnitKeys[i]), get(unit, UnitKeys[i]))

ToString == unit # NoUnit /\ Invoke("toString", undefined, toString(unit))

ToObject == unit # NoUnit /\ Invoke("toObject", undefined, toObject(unit))

Inspect == unit # NoUnit /\ Invoke("inspect", undefined, inspect(unit))

Next ==
  \/ NewUnit \/ FromObject \/ Reload
  \/ FromHC \/ FromMillis \/ FromMicros \/ FromAtoms \/ FromFiat
  \/ To \/ ToHC \/ ToMillis \/ ToMicros \/ ToAtoms \/ AtRate \/ Get
  \/ ToString \/ ToObject \/ Inspect

Spec == Init /\ [][Next]_vars

----------------------------------------------------------------------------
(* What the claims are stated with *)

scaleFactor(c) == FromInt(UNITS[c][1])

displayPrecision(c) == UNITS[c][2]

\* r is x rounded to p decimal digits, half away from zero: r is a multiple
\* of 10^-p at most half of 10^-p from x, and the one of larger magnitude
\* when x is exactly between two.  NaN and the infinities round to themselves.
IsRounded(x, p, r) ==
  IF x.k # "fin" THEN r = x
  ELSE IF x.d = 1 /\ x.e + p >= 0 THEN r = x
  ELSE IF x.e + p <= -10 THEN r = Zero
  ELSE /\ r.k = "fin" /\ r.d = 1 /\ r.e + p \in 0..9
       /\ LET R == r.n * Pow10(r.e + p)
              N == x.n * Pow10(IF x.e + p > 0 THEN x.e + p ELSE 0)
              D == x.d * Pow10(IF x.e + p < 0 THEN -(x.e + p) ELSE 0)
          IN /\ 2 * Abs(R * D - N) <= D
             /\ 2 * Abs(R * D - N) = D => Abs(R * D) > Abs(N)

\* The calls that construct a Unit, and the code each constructs with
Constructors ==
  {"Unit", "fromObject", "reload", "fromHC", "fromMillis", "fromMicros",
   "fromAtoms", "fromFiat"}

CodeOf(call) ==
  CASE call.op = "fromHC" -> Str("HC")
    [] call.op = "fromMillis" -> Str("mHC")
    [] call.op = "fromMicros" -> Str("dbits")
    [] call.op = "fromAtoms" -> Str("atoms")
    [] OTHER -> call.arg

\* The calls that read a Unit, and the code or rate each converts to
Readers ==
  {"to", "toHC", "toMillis", "toMicros", "toAtoms", "atRate", "get",
   "toString", "toObject", "inspect"}

TargetOf(call) ==
  CASE call.op = "toHC" -> Str("HC")
    [] call.op = "toMillis" -> Str("mHC")
    [] call.op = "toMicros" -> Str("dbits")
    [] call.op = "toAtoms" -> Str("atoms")
    [] OTHER -> call.arg

IsUnitCode(v) == v.t = "string" /\ v.s \in DOMAIN UNITS

\* x is an integer
IsInteger(x) == x.k = "fin" /\ x.d = 1 /\ x.e >= 0

\* rate <= 0, and rate > 0
NotPositive(x) == x.k # "nan" /\ x.n <= 0

Positive(x) == x.k # "nan" /\ x.n > 0

----------------------------------------------------------------------------
(* C1: for every amount and every code of the unit table, constructing
   Unit(amount, code), directly or through the factory named for the code,
   succeeds and stores atomicAmount = amount * scaleFactor(code) rounded half
   away from zero to an integer, and toAtoms() of the new Unit returns that
   integer. *)
C1_ConstructionRounds ==
  (last.op \in Constructors /\ IsUnitCode(CodeOf(last))
     /\ last.amount.k = "fin") =>
    /\ last.res.err = ""
    /\ IsInteger(last.res.ret._value)
    /\ IsRounded(Mul(last.amount, scaleFactor(CodeOf(last).s)), 0,
                 last.res.ret._value)
    /\ toAtoms(last.res.ret).ret = last.res.ret._value

(* C2: for every Unit u and every code c of the unit table, u.to(c), the
   fixed-name wrapper for c and the accessor for c return
   atomicAmount / scaleFactor(c) rounded half away from zero to
   displayPrecision(c) decimal digits. *)
C2_ToRounds ==
  (last.op \in {"to", "get", "toHC", "toMillis", "toMicros", "toAtoms"}
     /\ IsUnitCode(TargetOf(last))) =>
    /\ last.res.err = ""
    /\ IsRounded(Div(unit._value, scaleFactor(TargetOf(last).s)),
                 displayPrecision(TargetOf(last).s), last.res.ret)

\* A conversion to mHC that uses all five fraction digits.
C2_Witness ==
  /\ last.op \in {"to", "get", "toMillis"}
  /\ TargetOf(last) = Str("mHC")
  /\ last.res.err = ""
  /\ last.res.ret.k = "fin" /\ last.res.ret.e = -5

(* C3: for every non-numeric code that is not an entry of the unit table,
   constructing Unit(amount, code) (fromObject included) and to(code) on a
   Unit fail with UnknownCode carrying the code; no Unit exists after the
   failed construction. *)
C3_UnknownCodeRejected ==
  (last.op \in {"Unit", "fromObject", "to"} /\ last.arg.t = "string"
     /\ last.arg.s \notin DOMAIN UNITS) =>
    /\ last.res.err = "UnknownCode"
    /\ last.res.carries = last.arg
    /\ last.op # "to" => unit = NoUnit

(* C4: for every numeric rate <= 0, Unit(amount, rate), fromFiat(amount,
   rate), to(rate) and atRate(rate) fail with InvalidRate carrying the rate,
   whatever the amount; nothing is returned, no Unit is created and the Unit
   the call was made on is unchanged.  For a rate > 0 none of them fails with
   InvalidRate. *)
C4_RateRejection ==
  [][(last'.op \in {"Unit", "fromObject", "fromFiat", "to", "atRate"}
        /\ isNumber(last'.arg)) =>
       /\ NotPositive(last'.arg.x) =>
            /\ last'.res.err = "InvalidRate"
            /\ last'.res.carries = last'.arg
            /\ last'.res.ret = undefined
            /\ unit' = unit
       /\ Positive(last'.arg.x) => last'.res.err # "InvalidRate"]_vars

\* atRate(0) on a Unit, refused.
C4_Witness ==
  /\ last.op = "atRate" /\ last.arg = Number(Zero)
  /\ last.res.err = "InvalidRate"
  /\ unit # NoUnit /\ unit._value.k = "fin" /\ unit._value.n # 0

(* C5: for every fiat amount F and every rate R > 0, Unit.fromFiat(F, R) is
   the same Unit as Unit(F / R, baseCode), so that fromFiat(F, R).toHC() is
   F / R rounded half away from zero to 8 decimal digits. *)
C5_FiatDuality ==
  (last.op = "fromFiat" /\ Positive(last.arg.x)) =>
    /\ last.res.err = ""
    /\ last.res.ret = Unit(Div(last.amount, last.arg.x), Str("HC")).ret
    /\ IsRounded(Div(last.amount, last.arg.x), displayPrecision("HC"),
                 toHC(last.res.ret).ret)

(* C6: for every Unit u and every rate R > 0, u.to(R) and u.atRate(R) return
   the same value: u's base-unit value, as to(baseCode) returns it, times R,
   rounded to exactly 2 decimal digits. *)
C6_FiatProjection ==
  (last.op \in {"to", "atRate"} /\ isNumber(last.arg) /\ Positive(last.arg.x)) =>
    /\ last.res.err = ""
    /\ last.res.ret = to(unit, last.arg).ret
    /\ last.res.ret = atRate(unit, last.arg).ret
    /\ IsRounded(Mul(to(unit, Str("HC")).ret, last.arg.x), 2, last.res.ret)

\* atRate(R) whose result is not the product itself: rounding took place.
C6_Witness ==
  /\ last.op = "atRate" /\ last.res.err = ""
  /\ last.res.ret.k = "fin"
  /\ last.res.ret # Mul(to(unit, Str("HC")).ret, last.arg.x)

(* C7: for every Unit u, a Unit rebuilt from u's base-unit projection has the
   same atomic amount: Unit(u.toHC(), baseCode).toAtoms() = u.toAtoms(), and
   Unit.fromObject(u.toObject()) has u's atomicAmount. *)
C7_BaseRoundTrip ==
  unit # NoUnit =>
    /\ Unit(toHC(unit).ret, Str("HC")).err = ""
    /\ toAtoms(Unit(toHC(unit).ret, Str("HC")).ret).ret = toAtoms(unit).ret
    /\ fromObject(toObject(unit).ret).err = ""
    /\ fromObject(toObject(unit).ret).ret._value = unit._value
    /\ last.op = "reload" => last.res.ret = unit /\ last.amount = toHC(unit).ret

\* A Unit of a fractional number of coins, reloaded from its own toObject().
C7_Witness ==
  /\ last.op = "reload" /\ last.res.err = ""
  /\ unit._value.k = "fin" /\ unit._value.n # 0 /\ unit._value.e < 8

(* C8: after construction no call of to(code), to(rate), atRate, a fixed-name
   conversion, an accessor, toString, toObject or inspect, whether it returns
   or throws, changes the Unit's atomicAmount. *)
C8_ReadOnly ==
  [][last'.op \in Readers => (unit' = unit /\ last'.res.self = unit)]_vars

\* A conversion to coins that shows a fraction, made on a Unit that is intact.
C8_Witness ==
  /\ last.op = "to" /\ last.arg = Str("HC") /\ last.res.err = ""
  /\ unit._value.k = "fin" /\ last.res.ret # unit._value

(* C9: every Unit constructed by any path has an integer atomicAmount, and
   to(atomicCode), toAtoms() and the atoms accessor return exactly it. *)
C9_AtomicInteger ==
  unit # NoUnit =>
    /\ IsInteger(unit._value)
    /\ to(unit, Str("atoms")).ret = unit._value
    /\ toAtoms(unit).ret = unit._value
    /\ get(unit, "atoms").ret = unit._value

(* C10: from the coarsest entry of the unit table to the finest, scaleFactor
   is strictly decreasing and displayPrecision is strictly decreasing, and
   the atomic unit has scaleFactor 1 and displayPrecision 0. *)
C10_StrictlyDecreasing ==
  /\ \A i, j \in DOMAIN UnitKeys :
       i < j => /\ table[UnitKeys[i]][1] > table[UnitKeys[j]][1]
                /\ table[UnitKeys[i]][2] > table[UnitKeys[j]][2]
  /\ table["atoms"] = <<1, 0>>

(* C10, amended: from the coarsest entry to the finest, scaleFactor and
   displayPrecision never increase, two codes have the same scaleFactor
   exactly when they have the same displayPrecision, uHC, bits and dbits
   being three names of one denomination, and the atomic unit has
   scaleFactor 1 and displayPrecision 0 and shares them with no other code. *)
C10_NeverIncreasing ==
  /\ \A i, j \in DOMAIN UnitKeys :
       i < j => /\ table[UnitKeys[i]][1] >= table[UnitKeys[j]][1]
                /\ table[UnitKeys[i]][2] >= table[UnitKeys[j]][2]
                /\ (table[UnitKeys[i]][1] = table[UnitKeys[j]][1])
                     <=> (table[UnitKeys[i]][2] = table[UnitKeys[j]][2])
                /\ (table[UnitKeys[i]] = table[UnitKeys[j]])
                     <=> {UnitKeys[i], UnitKeys[j]} \subseteq
                           {"uHC", "bits", "dbits"}
  /\ table["atoms"] = <<1, 0>>

\* The accessors bits and dbits agree on a Unit on which mHC differs.
C10_Witness ==
  /\ last.op = "get" /\ last.arg = Str("dbits") /\ last.res.err = ""
  /\ last.res.ret = get(unit, "bits").ret
  /\ last.res.ret = get(unit, "uHC").ret
  /\ last.res.ret # get(unit, "mHC").ret

====
